---------------------------- MODULE Spec2Model ----------------------------
(***************************************************************************)
(* Model of telegram_news_bot.py: the ingestion-to-delivery pipeline of    *)
(* the parliamentary news monitor (filter, ranking, two-tier dedup, paced  *)
(* delivery with a SQLite "sent" table and an XLSX history log).           *)
(*                                                                         *)
(* Text is modelled as sequences of one-character strings, so that         *)
(* strip(), lower(), substring search and difflib's ratio are computed the *)
(* way the code computes them.                                             *)
(*                                                                         *)
(* Spec and SpecOverlap follow the runs with the plenary agenda switched  *)
(* off (camara_pauta.enabled defaults to False, line 682); SpecAgenda      *)
(* follows them with the agenda message of send_camara_pauta (lines        *)
(* 422-461) switched on.  Left out: the formatting of the message at lines *)
(* 712-727, the daily summary mode, and failures of SQLite.  A failing     *)
(* send and a failing XLSX write are modelled.  find_context, one call of  *)
(* send_telegram, the two adapters and the gathering of lines 640-692 are  *)
(* also followed on their own, each under a specification that draws the   *)
(* inputs from bounded sets.                                               *)
(***************************************************************************)
EXTENDS Integers, Sequences, FiniteSets, TLC

(***************************************************************************)
(* Python's None (an absent timestamp, an absent attribute).               *)
(***************************************************************************)
None == -99

Max2(a, b) == IF a >= b THEN a ELSE b
Min2(a, b) == IF a <= b THEN a ELSE b

\* ------------------------------------------------------------------ text

\* str.lower() on the characters the model uses
LowerChar(c) ==
    CASE c = "K" -> "k"
      [] c = "Q" -> "q"
      [] c = "Z" -> "z"
      [] c = "A" -> "a"
      [] OTHER -> c

Lower(s) == [i \in 1..Len(s) |-> LowerChar(s[i])]

IsSpace(c) == c \in {" ", "\n"}

RECURSIVE LStrip(_)
LStrip(s) == IF s # <<>> /\ IsSpace(Head(s)) THEN LStrip(Tail(s)) ELSE s

RECURSIVE RStrip(_)
RStrip(s) ==
    IF s # <<>> /\ IsSpace(s[Len(s)]) THEN RStrip(SubSeq(s, 1, Len(s) - 1)) ELSE s

\* normalize(s): (s or "").strip()
normalize(s) == RStrip(LStrip(s))

\* hay[i+1 .. i+Len(needle)] = needle, i a 0-based offset as in Python
MatchAt(hay, needle, i) ==
    /\ i + Len(needle) <= Len(hay)
    /\ \A j \in 1..Len(needle) : hay[i + j] = needle[j]

\* str.find: the lowest 0-based offset of needle in hay, -1 when absent
Find(hay, needle) ==
    LET hits == {i \in 0..Len(hay) : MatchAt(hay, needle, i)}
    IN  IF hits = {} THEN -1 ELSE CHOOSE i \in hits : \A j \in hits : i <= j

\* Python's `needle in hay`
Contains(hay, needle) == Find(hay, needle) # -1

\* blob = f"{title}\n{summary}".lower()
Blob(title, summary) == Lower(title \o <<"\n">> \o summary)

\* any(k.lower() in blob for k in words)
AnyIn(words, blob) == \E i \in 1..Len(words) : Contains(blob, Lower(words[i]))

\* count_keywords: sum(1 for k in keywords if k.lower() in text_lower)
count_keywords(text, keywords) ==
    Cardinality({i \in 1..Len(keywords) : Contains(Lower(text), Lower(keywords[i]))})

(***************************************************************************)
(* find_context: the snippet shown with an item.                           *)
(***************************************************************************)

\* s[a:b] for 0 <= a
Slice(s, a, b) == SubSeq(s, a + 1, Min2(b, Len(s)))

\* html.escape(s, quote=False)
EscapeChar(c) ==
    CASE c = "&" -> <<"&", "a", "m", "p", ";">>
      [] c = "<" -> <<"&", "l", "t", ";">>
      [] c = ">" -> <<"&", "g", "t", ";">>
      [] OTHER -> <<c>>

RECURSIVE html_escape(_)
html_escape(s) ==
    IF s = <<>> THEN <<>> ELSE EscapeChar(Head(s)) \o html_escape(Tail(s))

\* str.replace(old, new), old not empty
RECURSIVE Replace(_, _, _)
Replace(s, old, new) ==
    IF Len(s) < Len(old) THEN s
    ELSE IF MatchAt(s, old, 0)
         THEN new \o Replace(SubSeq(s, Len(old) + 1, Len(s)), old, new)
         ELSE <<Head(s)>> \o Replace(Tail(s), old, new)

OpenB == <<"<", "b", ">">>
CloseB == <<"<", "/", "b", ">">>
\* the one character U+2026 and the text "(ver titulo)", each as one symbol
Ellipsis == <<"...">>
VerTitulo == <<"(ver titulo)">>

\* lines 287-294: the emphasis, the cut to max_len and the escaping
Emphasise(ctx, k, max_len) ==
    LET kw_idx == Find(Lower(ctx), k)
        marked == IF kw_idx # -1
                  THEN Slice(ctx, 0, kw_idx) \o OpenB
                       \o Slice(ctx, kw_idx, kw_idx + Len(k)) \o CloseB
                       \o Slice(ctx, kw_idx + Len(k), Len(ctx))
                  ELSE ctx
        cut == IF Len(marked) > max_len
               THEN Slice(marked, 0, max_len) \o Ellipsis
               ELSE marked
    IN  Replace(Replace(html_escape(cut), html_escape(OpenB), OpenB),
                html_escape(CloseB), CloseB)

\* lines 281-286: the window around the first occurrence of k in raw
Window(raw, k, context_chars) ==
    LET idx == Find(Lower(raw), k)
        start == Max2(0, idx - context_chars)
        end == Min2(Len(raw), idx + Len(k) + context_chars)
    IN  Slice(raw, start, end)

\* the first keyword of the list, from position n on, that `text` holds;
\* 0 when there is none
RECURSIVE FirstHit(_, _, _)
FirstHit(text, keywords, n) ==
    IF n > Len(keywords) THEN 0
    ELSE IF Contains(Lower(text), Lower(keywords[n])) THEN n
    ELSE FirstHit(text, keywords, n + 1)

\* a find_context that looks at the title before the body
find_context_title_first(title, summary, keywords, context_chars, max_len) ==
    LET raw == normalize(summary)
        n == FirstHit(raw, keywords, 1)
        m == FirstHit(title, keywords, 1)
    IN  IF m # 0 THEN [kw |-> keywords[m], ctx |-> VerTitulo]
        ELSE IF n # 0
        THEN [kw |-> keywords[n],
              ctx |-> Emphasise(Window(raw, Lower(keywords[n]), context_chars),
                                Lower(keywords[n]), max_len)]
        ELSE [kw |-> <<>>, ctx |-> <<>>]

find_context(title, summary, keywords, context_chars, max_len) ==
    LET raw == normalize(summary)
        n == FirstHit(raw, keywords, 1)
        m == FirstHit(title, keywords, 1)
    IN  IF n # 0
        THEN [kw |-> keywords[n],
              ctx |-> Emphasise(Window(raw, Lower(keywords[n]), context_chars),
                                Lower(keywords[n]), max_len)]
        ELSE IF m # 0 THEN [kw |-> keywords[m], ctx |-> VerTitulo]
        ELSE [kw |-> <<>>, ctx |-> <<>>]

\* ------------------------------------------------- difflib.SequenceMatcher

(***************************************************************************)
(* find_longest_match(alo, ahi, blo, bhi) with 0-based half-open ranges,   *)
(* no junk (isjunk is None, and autojunk only acts on sequences of 200 or  *)
(* more elements): the longest block a[i:i+k] = b[j:j+k]; of the longest,  *)
(* the one starting earliest in a, and of those the earliest in b.         *)
(***************************************************************************)
BlockAt(a, b, i, j, k) == \A d \in 1..k : a[i + d] = b[j + d]

FindLongestMatch(a, b, alo, ahi, blo, bhi) ==
    LET cand == {t \in (alo..ahi) \X (blo..bhi) \X (0..Min2(ahi - alo, bhi - blo)) :
                    /\ t[1] + t[3] <= ahi
                    /\ t[2] + t[3] <= bhi
                    /\ BlockAt(a, b, t[1], t[2], t[3])}
        kmax == CHOOSE k \in {t[3] : t \in cand} : \A t \in cand : t[3] <= k
        best == {t \in cand : t[3] = kmax}
        imin == CHOOSE i \in {t[1] : t \in best} : \A t \in best : i <= t[1]
        besti == {t \in best : t[1] = imin}
        jmin == CHOOSE j \in {t[2] : t \in besti} : \A t \in besti : j <= t[2]
    IN  IF kmax = 0 THEN <<alo, blo, 0>> ELSE <<imin, jmin, kmax>>

\* get_matching_blocks: the total size of the matching blocks
RECURSIVE Matches(_, _, _, _, _, _)
Matches(a, b, alo, ahi, blo, bhi) ==
    LET m == FindLongestMatch(a, b, alo, ahi, blo, bhi)
        i == m[1]
        j == m[2]
        k == m[3]
    IN  IF k = 0 THEN 0
        ELSE k
             + (IF alo < i /\ blo < j THEN Matches(a, b, alo, i, blo, j) ELSE 0)
             + (IF i + k < ahi /\ j + k < bhi
                   THEN Matches(a, b, i + k, ahi, j + k, bhi) ELSE 0)

(***************************************************************************)
(* ratio() = 2.0 * M / T (1.0 when T = 0), kept as the fraction            *)
(* <<numerator, denominator>>; a threshold is a fraction too.              *)
(***************************************************************************)
Ratio(a, b) ==
    LET T == Len(a) + Len(b)
    IN  IF T = 0 THEN <<1, 1>> ELSE <<2 * Matches(a, b, 0, Len(a), 0, Len(b)), T>>

FracGreater(x, y) == x[1] * y[2] > y[1] * x[2]

\* ------------------------------------------------------------------ time

(***************************************************************************)
(* An instant is day * DayLen + hour * UsPerHour + us: `us` stands for the *)
(* sub-second part of a datetime, `hour` for its hour, minute and second.  *)
(* An ISO string of a UTC datetime compares like the instant it denotes    *)
(* (a string without a fraction is the smaller one: "+" sorts before "."), *)
(* so the isoformat() strings of the code are kept as instants.            *)
(***************************************************************************)
UsPerHour == 2
HoursPerDay == 2
DayLen == UsPerHour * HoursPerDay
MaxTime == 4

Hours(h) == h * UsPerHour

\* datetime.now(timezone.utc).replace(hour=0, minute=0, second=0): the
\* microsecond of `t` is kept
TodayStart(t) == (t \div DayLen) * DayLen + (t % UsPerHour)

UtcDay(t) == t \div DayLen

\* ------------------------------------------------------- the "sent" table

(***************************************************************************)
(* A row of the table `sent` (init_db); source_type, published_at and      *)
(* sent_at are columns too.  The table is a set of rows: the PRIMARY KEY   *)
(* on id is what mark_sent's INSERT OR IGNORE has to keep.                 *)
(***************************************************************************)
SentRow(item, t) ==
    [id |-> item.id, title |-> item.title, link |-> item.link,
     source |-> item.source, source_type |-> item.source_type,
     published_at |-> item.published_at, sent_at |-> t]

\* SELECT 1 FROM sent WHERE id=?
was_sent(table, item_id) == \E row \in table : row.id = item_id

\* a mark_sent that overwrites the row of the id (INSERT OR REPLACE)
mark_sent_replace(table, item, t) ==
    {row \in table : row.id # item.id} \cup {SentRow(item, t)}

\* INSERT OR IGNORE INTO sent VALUES (...), sent_at = now
mark_sent(table, item, t) ==
    IF \E row \in table : row.id = item.id
    THEN table
    ELSE table \cup {SentRow(item, t)}

RECURSIVE SeqOfSet(_)
SeqOfSet(S) ==
    IF S = {} THEN <<>>
    ELSE LET x == CHOOSE y \in S : TRUE IN <<x>> \o SeqOfSet(S \ {x})

\* the rows a query at instant t selects: a window that opens at 00:00:00
\* sharp (the microsecond reset too)
TodayRowsWholeDay(table, t) == {row \in table : UtcDay(row.sent_at) = UtcDay(t)}

\* SELECT title FROM sent WHERE sent_at >= today_start
TodayRows(table, t) == {row \in table : row.sent_at >= TodayStart(t)}

\* get_sent_titles_today: one title per selected row
get_sent_titles_today(table, t) ==
    LET rows == SeqOfSet(TodayRows(table, t))
    IN  [i \in 1..Len(rows) |-> rows[i].title]

\* ----------------------------------------------------------- similarity

\* is_similar: SequenceMatcher(None, title1.lower(), title2.lower()).ratio() > threshold
is_similar(title1, title2, threshold) ==
    FracGreater(Ratio(Lower(title1), Lower(title2)), threshold)

\* is_duplicate_by_similarity: any existing title similar to `title`
is_duplicate_by_similarity(title, existing_titles, threshold) ==
    \E i \in 1..Len(existing_titles) : is_similar(title, existing_titles[i], threshold)

\* --------------------------------------------------------------- filter

\* parse_published_dt: published_parsed, else updated_parsed, else None
parse_published_dt(entry) ==
    IF entry.published # None THEN entry.published
    ELSE IF entry.updated # None THEN entry.updated
    ELSE None

\* a must-have check that lets every item through when the set is empty
MissesKeywordsUnlessEmpty(keywords, blob) ==
    Len(keywords) > 0 /\ ~AnyIn(keywords, blob)

\* not any(k.lower() in blob for k in keywords)
MissesKeywords(keywords, blob) == ~AnyIn(keywords, blob)

\* any(b.lower() in blob for b in blocklist)
HitsBlocklist(blocklist, blob) == AnyIn(blocklist, blob)

\* a cutoff test that also drops an item published exactly at the cutoff
IsStaleInclusive(pub_dt, cutoff) == pub_dt # None /\ pub_dt <= cutoff

\* pub_dt and pub_dt < cutoff
IsStale(pub_dt, cutoff) == pub_dt # None /\ pub_dt < cutoff

(***************************************************************************)
(* The fate of one feed entry in process_rss_items: the first `continue`   *)
(* it runs into, or "keep".                                                *)
(***************************************************************************)
Verdict(e, keywords, blocklist, cutoff) ==
    LET title == normalize(e.title)
        link == normalize(e.link)
        summary == normalize(e.summary)
        blob == Blob(title, summary)
    IN  IF title = <<>> \/ link = <<>> THEN "invalid"
        ELSE IF MissesKeywords(keywords, blob) THEN "no_keyword"
        ELSE IF HitsBlocklist(blocklist, blob) THEN "blocked"
        ELSE IF IsStale(parse_published_dt(e), cutoff) THEN "stale"
        ELSE "keep"

\* an item id that is a plain string (an entry's id or link)
StrId(text) == [kind |-> "str", secao |-> <<>>, text |-> text, n |-> 0]

\* the dict process_rss_items appends for a kept entry; `blob` is not a
\* key of the dict: it records the text the filter saw
RssItem(e, source, source_type, keywords) ==
    LET title == normalize(e.title)
        link == normalize(e.link)
        summary == normalize(e.summary)
        blob == Blob(title, summary)
    IN  [id |-> IF e.has_id THEN StrId(e.id) ELSE StrId(link),
         title |-> title,
         link |-> link,
         source |-> source,
         source_type |-> source_type,
         published_at |-> parse_published_dt(e),
         relevance |-> count_keywords(blob, keywords),
         blob |-> blob]

RECURSIVE ProcessEntries(_, _, _, _, _, _)
ProcessEntries(entries, source, source_type, keywords, blocklist, cutoff) ==
    IF entries = <<>> THEN <<>>
    ELSE (IF Verdict(Head(entries), keywords, blocklist, cutoff) = "keep"
          THEN <<RssItem(Head(entries), source, source_type, keywords)>>
          ELSE <<>>)
         \o ProcessEntries(Tail(entries), source, source_type, keywords, blocklist, cutoff)

\* process_rss_items over feed_results, a sequence of [entries, source]
RECURSIVE process_rss_items(_, _, _, _, _)
process_rss_items(feed_results, keywords, blocklist, cutoff, source_type) ==
    IF feed_results = <<>> THEN <<>>
    ELSE ProcessEntries(Head(feed_results).entries, Head(feed_results).source,
                        source_type, keywords, blocklist, cutoff)
         \o process_rss_items(Tail(feed_results), keywords, blocklist, cutoff, source_type)

\* ------------------------------------------------------------------ DOU

\* hash(s): Python salts str hashes per process (PYTHONHASHSEED), so the
\* value depends on the process's seed as well as on the string
Hash(seed, s) == [seed |-> seed, of |-> s]

\* a DOU id computed from the title alone with a hash that no process salts
DouIdStable(secao, title, link, seed) ==
    [kind |-> "dou", secao |-> secao, text |-> title \o link, n |-> 0]

\* item_id = f"dou_{secao}_{hash(title + link)}"
DouId(secao, title, link, seed) ==
    [kind |-> "dou", secao |-> secao, text |-> Hash(seed, title \o link).of,
     n |-> Hash(seed, title \o link).seed]

\* urljoin("https://www.in.gov.br", href)
UrlJoin(href) == <<"u">> \o href

\* the dict fetch_dou appends for one result element that has a title
\* element; run() then sets relevance = 1
DouItem(res, keyword, secao, seed, t) ==
    LET title == normalize(res.title)
        link == IF res.has_link THEN UrlJoin(res.href) ELSE <<>>
        summary == normalize(res.summary)
    IN  [id |-> DouId(secao, title, link, seed),
         title |-> title,
         link |-> IF link # <<>> THEN link ELSE <<"s">> \o keyword,
         source |-> "DOU",
         source_type |-> "dou",
         published_at |-> t,
         relevance |-> 1,
         blob |-> Blob(title, summary)]

RECURSIVE DouItems(_, _, _, _, _)
DouItems(results, keyword, secao, seed, t) ==
    IF results = <<>> THEN <<>>
    ELSE (IF Head(results).has_title
          THEN <<DouItem(Head(results), keyword, secao, seed, t)>>
          ELSE <<>>)
         \o DouItems(Tail(results), keyword, secao, seed, t)

\* "Remove duplicatas": the first item of every title
RECURSIVE UniqueByTitle(_, _)
UniqueByTitle(items, seen) ==
    IF items = <<>> THEN <<>>
    ELSE IF Head(items).title \in seen THEN UniqueByTitle(Tail(items), seen)
    ELSE <<Head(items)>> \o UniqueByTitle(Tail(items), seen \cup {Head(items).title})

\* fetch_dou for one keyword and one section; results[:10]
fetch_dou(results, keyword, secao, seed, t) ==
    UniqueByTitle(DouItems(SubSeq(results, 1, Min2(Len(results), 10)),
                           keyword, secao, seed, t), {})

\* -------------------------------------------------------------- ranking

\* x.get("published_at") or "": the empty string sorts below every date
DateKey(published_at) == IF published_at = None THEN <<0, 0>> ELSE <<1, published_at>>

PairGreater(x, y) == x[1] > y[1] \/ (x[1] = y[1] /\ x[2] > y[2])

\* a sort key that puts recency first and relevance second
KeyGreaterRecencyFirst(x, y) ==
    \/ PairGreater(DateKey(x.published_at), DateKey(y.published_at))
    \/ /\ DateKey(x.published_at) = DateKey(y.published_at)
       /\ x.relevance > y.relevance

\* key=lambda x: (x.get("relevance", 0), x.get("published_at") or "")
KeyGreater(x, y) ==
    \/ x.relevance > y.relevance
    \/ /\ x.relevance = y.relevance
       /\ PairGreater(DateKey(x.published_at), DateKey(y.published_at))

\* x goes after every element whose key is not smaller than its own
InsertDesc(sorted, x) ==
    LET n == Cardinality({i \in 1..Len(sorted) : ~KeyGreater(x, sorted[i])})
    IN  SubSeq(sorted, 1, n) \o <<x>> \o SubSeq(sorted, n + 1, Len(sorted))

\* list.sort(key=..., reverse=True): stable, descending
RECURSIVE SortFrom(_, _)
SortFrom(sorted, rest) ==
    IF rest = <<>> THEN sorted
    ELSE SortFrom(InsertDesc(sorted, Head(rest)), Tail(rest))

SortItems(items) == SortFrom(<<>>, items)

\* --------------------------------------------------- configuration, world

\* config["keywords"], config["blocklist"] and settings of config.yaml
keywords == << <<"k">>, <<"q">> >>
blocklist == << <<"z">> >>
similarity_threshold == <<85, 100>>
lookback_hours == 2
MaxCap == 2

\* dou: keywords and secoes of the search
dou_keyword == <<"k">>
dou_secao == <<"1">>

Entry(title, link, summary, published, updated, has_id, id) ==
    [title |-> title, link |-> link, summary |-> summary, published |-> published,
     updated |-> updated, has_id |-> has_id, id |-> id]

\* what the two news feeds, the alert feed and the DOU search can hold
eA == Entry(<<"K", "a", "b">>, <<"1">>, <<"q">>, Hours(-1), None, FALSE, <<>>)
eB == Entry(<<"k", "a", "b", "x">>, <<"2">>, <<>>, None, Hours(0), TRUE, <<"i">>)
eC == Entry(<<" ", "k", "y", "y">>, <<"1">>, <<"Q">>, None, None, FALSE, <<>>)
eG == Entry(<<"k", "z">>, <<"3">>, <<>>, None, None, FALSE, <<>>)
eE == Entry(<<"k", "q">>, <<"5">>, <<>>, None, None, FALSE, <<>>)

DouResult(has_title, title, has_link, href, summary) ==
    [has_title |-> has_title, title |-> title, has_link |-> has_link, href |-> href,
     summary |-> summary]

rD == DouResult(TRUE, <<"d", "d">>, TRUE, <<"4">>, <<>>)
rZ == DouResult(TRUE, <<"Z", "d">>, FALSE, <<>>, <<"k">>)

Worlds ==
    [f1 : {<<>>, <<eB>>, <<eA, eB>>, <<eE>>},
     f2 : {<<>>, <<eC>>},
     g1 : {<<eG>>},
     dou : {<<>>, <<rD, rZ>>}]

\* config["feeds"]: the order in which the news feeds are listed and submitted
feeds == <<"f1", "f2">>

\* the results taken in the order of submission, whatever worker ends first
FeedOrdersAsListed == {feeds}

\* the orders in which the workers of the two news feeds can complete
FeedOrders == {<<"f1", "f2">>, <<"f2", "f1">>}

\* fetch_feed: (entries[:120], source)
fetch_feed(w, url) ==
    [entries |-> SubSeq(w[url], 1, Min2(Len(w[url]), 120)), source |-> url]

\* fetch_all_feeds: the results in completion order, the empty ones dropped
RECURSIVE fetch_all_feeds(_, _)
fetch_all_feeds(w, completed) ==
    IF completed = <<>> THEN <<>>
    ELSE (IF fetch_feed(w, Head(completed)).entries # <<>>
          THEN <<fetch_feed(w, Head(completed))>> ELSE <<>>)
         \o fetch_all_feeds(w, Tail(completed))

\* ---------------------------------------------------------------- state

Runs == {1, 2}

VARIABLES
    world,      \* what the sources hold
    max_items,  \* settings["max_items_per_run"]
    now,        \* the clock
    db,         \* the table `sent`
    xlsx,       \* the rows of the history workbook
    proc,       \* per run: the position in run() and its locals
    ignored,    \* the rows an INSERT OR IGNORE found in its way
    fin,        \* the input of a function followed on its own, and its stage
    fout        \* the output of that function

vars == <<world, max_items, now, db, xlsx, proc, ignored, fin, fout>>

Idle ==
    [pc |-> "idle", seed |-> 0, all_items |-> <<>>, idx |-> 0, sent_titles |-> <<>>,
     titles_at |-> 0, sent |-> 0, skipped_similar |-> 0, skipped_duplicate |-> 0,
     fate |-> <<>>, handed_known |-> FALSE, db_at_start |-> {},
     down |-> {}, completed |-> <<>>,
     mode |-> "news", unpaced |-> FALSE, agenda_tried |-> None,
     agenda_day |-> None]

NoFilter == [stage |-> "off"]

Init ==
    /\ world \in Worlds
    /\ max_items \in 1..MaxCap
    /\ now = 0
    /\ db = {}
    /\ xlsx = <<>>
    /\ proc = [r \in Runs |-> Idle]
    /\ ignored = {}
    /\ fin = NoFilter
    /\ fout = <<>>

Active(r) == proc[r].pc \notin {"idle", "done", "aborted"}

\* the item the delivery loop is at
Current(r) == proc[r].all_items[proc[r].idx]

SetFate(r, f) == [proc[r].fate EXCEPT ![proc[r].idx] = f]

\* the seeds a starting process can get: the seed of an earlier process
\* (PYTHONHASHSEED set) or a fresh one
SeedChoices(r) == ({proc[q].seed : q \in Runs} \cup {r}) \ {0}

\* -------------------------------------------------------------- actions

(***************************************************************************)
(* run(), lines 608-692: the cutoff, the fetch of the news feeds, of the   *)
(* alert feed and of the DOU, the filter, the merge and the sort.  The     *)
(* hash seed of the process is drawn when hash() is first called.          *)
(***************************************************************************)
Collect(r) ==
    /\ proc[r].pc = "idle"
    /\ \E completed \in FeedOrders, s \in SeedChoices(r) :
         LET cutoff == now - Hours(lookback_hours)
             rss_items == process_rss_items(fetch_all_feeds(world, completed),
                                            keywords, blocklist, cutoff, "rss")
             ga_items == process_rss_items(fetch_all_feeds(world, <<"g1">>),
                                           keywords, blocklist, cutoff, "google_alert")
             dou_items == fetch_dou(world.dou, dou_keyword, dou_secao, s, now)
             merged == SortItems(rss_items \o ga_items \o dou_items)
         IN  proc' = [proc EXCEPT ![r] =
                        [@ EXCEPT !.pc = "titles",
                                  !.seed = IF dou_items # <<>> THEN s ELSE 0,
                                  !.all_items = merged,
                                  !.fate = [i \in 1..Len(merged) |-> "pending"]]]
    /\ UNCHANGED <<world, max_items, now, db, xlsx, ignored, fin, fout>>

\* a run starts when the scheduler's previous run has ended
StartRun(r) ==
    /\ \A q \in Runs : q < r => proc[q].pc \in {"done", "aborted"}
    /\ Collect(r)

\* run(), lines 695-698
LoadTitles(r) ==
    /\ proc[r].pc = "titles"
    /\ proc' = [proc EXCEPT ![r] =
                  [@ EXCEPT !.pc = "loop",
                            !.idx = 1,
                            !.sent_titles = get_sent_titles_today(db, now),
                            !.titles_at = now,
                            !.db_at_start = db,
                            !.sent = 0,
                            !.skipped_similar = 0,
                            !.skipped_duplicate = 0]]
    /\ UNCHANGED <<world, max_items, now, db, xlsx, ignored, fin, fout>>

\* a cap test that lets one more item through
CapReachedLate(sent, cap) == sent > cap

\* if sent >= max_items: break
CapReached(sent, cap) == sent >= cap

\* an id check that never finds the id
IdKnownNever(table, item) == FALSE

\* was_sent(db_path, it["id"])
IdKnown(table, item) == was_sent(table, item.id)

\* a fuzzy check against the titles of earlier days and runs only
TitleKnownStartOnly(r, item) ==
    is_duplicate_by_similarity(item.title,
                               get_sent_titles_today(proc[r].db_at_start, proc[r].titles_at),
                               similarity_threshold)

\* is_duplicate_by_similarity(it["title"], sent_titles, similarity_threshold)
TitleKnown(r, item) ==
    is_duplicate_by_similarity(item.title, proc[r].sent_titles, similarity_threshold)

\* a loop head that counts the candidate it stops at as a duplicate
ExamineCountsAtCap(r) ==
    /\ proc[r].pc = "loop"
    /\ proc' = [proc EXCEPT ![r] =
         IF proc[r].idx > Len(proc[r].all_items) THEN [@ EXCEPT !.pc = "done"]
         ELSE IF CapReached(proc[r].sent, max_items)
              THEN [@ EXCEPT !.pc = "done", !.skipped_duplicate = @ + 1,
                             !.fate = SetFate(r, "dup")]
         ELSE IF IdKnown(db, Current(r))
              THEN [@ EXCEPT !.skipped_duplicate = @ + 1, !.idx = @ + 1,
                             !.fate = SetFate(r, "dup")]
         ELSE IF TitleKnown(r, Current(r))
              THEN [@ EXCEPT !.skipped_similar = @ + 1, !.idx = @ + 1,
                             !.fate = SetFate(r, "similar")]
         ELSE [@ EXCEPT !.pc = "send"]]
    /\ UNCHANGED <<world, max_items, now, db, xlsx, ignored, fin, fout>>

(***************************************************************************)
(* One pass over the head of the loop, lines 700-710: the loop ends (the   *)
(* list is exhausted or the cap is reached), or the item is skipped, or it *)
(* goes on to be sent.  Lines 747-751 log the summary when the loop ends.   *)
(***************************************************************************)
Examine(r) ==
    /\ proc[r].pc = "loop"
    /\ proc' = [proc EXCEPT ![r] =
         IF proc[r].idx > Len(proc[r].all_items) THEN [@ EXCEPT !.pc = "done"]
         ELSE IF CapReached(proc[r].sent, max_items) THEN [@ EXCEPT !.pc = "done"]
         ELSE IF IdKnown(db, Current(r))
              THEN [@ EXCEPT !.skipped_duplicate = @ + 1, !.idx = @ + 1,
                             !.fate = SetFate(r, "dup")]
         ELSE IF TitleKnown(r, Current(r))
              THEN [@ EXCEPT !.skipped_similar = @ + 1, !.idx = @ + 1,
                             !.fate = SetFate(r, "similar")]
         ELSE [@ EXCEPT !.pc = "send"]]
    /\ UNCHANGED <<world, max_items, now, db, xlsx, ignored, fin, fout>>

\* a send whose failure ends the run
SendFailureAborts(r) ==
    /\ proc[r].pc = "send"
    /\ \E ok \in BOOLEAN :
         proc' = [proc EXCEPT ![r] =
            IF ok
            THEN [@ EXCEPT !.pc = "xlsx", !.fate = SetFate(r, "delivered"),
                           !.unpaced = TRUE,
                           !.handed_known = @ \/ was_sent(db, Current(r).id)]
            ELSE [@ EXCEPT !.pc = "aborted", !.fate = SetFate(r, "failed"),
                           !.handed_known = @ \/ was_sent(db, Current(r).id)]]
    /\ UNCHANGED <<world, max_items, now, db, xlsx, ignored, fin, fout>>

\* send_telegram(msg), line 729: True, or False after a request error
Send(r) ==
    /\ proc[r].pc = "send"
    /\ \E ok \in BOOLEAN :
         proc' = [proc EXCEPT ![r] =
            IF ok
            THEN [@ EXCEPT !.pc = "xlsx", !.fate = SetFate(r, "delivered"),
                           !.unpaced = TRUE,
                           !.handed_known = @ \/ was_sent(db, Current(r).id)]
            ELSE [@ EXCEPT !.pc = "loop", !.idx = @ + 1, !.fate = SetFate(r, "failed"),
                           !.handed_known = @ \/ was_sent(db, Current(r).id)]]
    /\ UNCHANGED <<world, max_items, now, db, xlsx, ignored, fin, fout>>

XlsxRow(item, t) ==
    [sent_brt |-> t, published_at |-> item.published_at, source |-> item.source,
     source_type |-> item.source_type, title |-> item.title, link |-> item.link,
     relevance |-> item.relevance]

\* append_xlsx, lines 730-740: the row is saved, or load_workbook / save
\* raises and run() ends with the exception
AppendXlsx(r) ==
    /\ proc[r].pc = "xlsx"
    /\ \E ok \in BOOLEAN :
         IF ok
         THEN /\ xlsx' = Append(xlsx, XlsxRow(Current(r), now))
              /\ proc' = [proc EXCEPT ![r].pc = "mark"]
         ELSE /\ xlsx' = xlsx
              /\ proc' = [proc EXCEPT ![r].pc = "aborted"]
    /\ UNCHANGED <<world, max_items, now, db, ignored, fin, fout>>

\* lines 742-744: mark_sent, sent_titles.append, sent += 1
MarkSent(r) ==
    /\ proc[r].pc = "mark"
    /\ db' = mark_sent(db, Current(r), now)
    /\ ignored' = ignored \cup {row \in db : row.id = Current(r).id}
    /\ proc' = [proc EXCEPT ![r] =
                  [@ EXCEPT !.pc = "sleep",
                            !.sent_titles = Append(@, Current(r).title),
                            !.sent = @ + 1]]
    /\ UNCHANGED <<world, max_items, now, xlsx, fin, fout>>

\* time.sleep(sleep_time), line 745, and on to the next item
Sleep(r) ==
    /\ proc[r].pc = "sleep"
    /\ proc' = [proc EXCEPT ![r] = [@ EXCEPT !.pc = "loop", !.idx = @ + 1,
                                              !.unpaced = FALSE]]
    /\ UNCHANGED <<world, max_items, now, db, xlsx, ignored, fin, fout>>

\* the clock advances; the instants are coarse: the delivery loop of a run
\* takes place within one of them
Tick ==
    /\ now < MaxTime
    /\ \A r \in Runs : ~Active(r)
    /\ now' = now + 1
    /\ UNCHANGED <<world, max_items, db, xlsx, proc, ignored, fin, fout>>

Step(r) ==
    \/ LoadTitles(r)
    \/ Examine(r)
    \/ Send(r)
    \/ AppendXlsx(r)
    \/ MarkSent(r)
    \/ Sleep(r)

\* ---------------------------------------------------- specifications

\* the scheduler runs the bot again only after the previous run has ended
Next ==
    \/ \E r \in Runs : StartRun(r)
    \/ \E r \in Runs : Step(r)
    \/ Tick

Spec == Init /\ [][Next]_vars

\* two runs started without waiting for each other
NextOverlap ==
    \/ \E r \in Runs : Collect(r)
    \/ \E r \in Runs : Step(r)
    \/ Tick

\* the overlapping runs are followed over the feeds alone
InitOverlap == Init /\ world.dou = <<>>

SpecOverlap == InitOverlap /\ [][NextOverlap]_vars

(***************************************************************************)
(* The filter on its own: process_rss_items applied to one feed entry,     *)
(* with the entry, the keyword list, the blocklist and the cutoff drawn    *)
(* from bounded sets.                                                      *)
(***************************************************************************)
FilterTitles == {<<>>, <<" ">>, <<"K">>, <<"a">>, <<"Z", "k">>, <<"a", "q", " ">>}
FilterLinks == {<<>>, <<"1">>}
FilterSummaries == {<<>>, <<"q">>, <<"z">>}
FilterTimes == {None, Hours(0), Hours(1), Hours(2)}
FilterKeywords == {<<>>, << <<"k">> >>, << <<"K">>, <<"q">> >>}
FilterBlocklists == {<<>>, << <<"Z">> >>}
FilterCutoffs == {Hours(1), Hours(1) + 1}

FilterInputs ==
    [stage : {"in"},
     entry : [title : FilterTitles, link : FilterLinks, summary : FilterSummaries,
              published : FilterTimes, updated : {None, Hours(1)},
              has_id : {FALSE}, id : {<<>>}],
     keywords : FilterKeywords,
     blocklist : FilterBlocklists,
     cutoff : FilterCutoffs]

InitFilter ==
    /\ world = [f1 |-> <<>>, f2 |-> <<>>, g1 |-> <<>>, dou |-> <<>>]
    /\ max_items = 1
    /\ now = 0
    /\ db = {}
    /\ xlsx = <<>>
    /\ proc = [r \in Runs |-> Idle]
    /\ ignored = {}
    /\ fin \in FilterInputs
    /\ fout = <<>>

ApplyFilter ==
    /\ fin.stage = "in"
    /\ fout' = process_rss_items(<< [entries |-> <<fin.entry>>, source |-> "f"] >>,
                                 fin.keywords, fin.blocklist, fin.cutoff, "rss")
    /\ fin' = [fin EXCEPT !.stage = "out"]
    /\ UNCHANGED <<world, max_items, now, db, xlsx, proc, ignored>>

NextFilter == ApplyFilter

SpecFilter == InitFilter /\ [][NextFilter]_vars

(***************************************************************************)
(* One call of send_telegram on its own.  SESSION.post goes through the    *)
(* adapter mounted by create_session with Retry(total=3, status_forcelist, *)
(* allowed_methods GET and POST): a response whose status is in the list,  *)
(* or a connection error, is retried while retries are left; when none is  *)
(* left the adapter raises, and requests turns that into a                 *)
(* RequestException.  Another status is handed back at once and            *)
(* raise_for_status raises for 4xx and 5xx.  The answers the transport     *)
(* would give to the successive requests are drawn beforehand; status 0    *)
(* stands for a connection error.  The backoff sleeps take no part.        *)
(***************************************************************************)
RetryTotal == 3
status_forcelist == {429, 500, 502, 503, 504}

MaxResponses == 5
Statuses == {0, 200, 400, 429, 503}

\* a retry that ignores how many retries are left
ShouldRetryAlways(status, retries_left) == status = 0 \/ status \in status_forcelist

\* Retry.increment / is_exhausted: retry while total has not gone below zero
ShouldRetry(status, retries_left) ==
    /\ status = 0 \/ status \in status_forcelist
    /\ retries_left > 0

\* r.raise_for_status(): HTTPError for 400 <= status < 600
RaisesForStatus(status) == status >= 400 /\ status < 600

SendInputs ==
    [stage : {"post"},
     responses : [1..MaxResponses -> Statuses],
     attempts : {0},
     retries_left : {RetryTotal}]

InitSend ==
    /\ world = [f1 |-> <<>>, f2 |-> <<>>, g1 |-> <<>>, dou |-> <<>>]
    /\ max_items = 1
    /\ now = 0
    /\ db = {}
    /\ xlsx = <<>>
    /\ proc = [r \in Runs |-> Idle]
    /\ ignored = {}
    /\ fin \in SendInputs
    /\ fout = <<>>

\* one request of SESSION.post and what follows from its answer: a retry,
\* or the return of send_telegram (True, or False from the except clause)
Post ==
    /\ fin.stage = "post"
    /\ fin.attempts < MaxResponses
    /\ LET status == fin.responses[fin.attempts + 1]
       IN  IF ShouldRetry(status, fin.retries_left)
           THEN /\ fin' = [fin EXCEPT !.attempts = @ + 1, !.retries_left = @ - 1]
                /\ fout' = fout
           ELSE /\ fin' = [fin EXCEPT !.attempts = @ + 1, !.stage = "returned"]
                /\ fout' = <<status # 0 /\ status \notin status_forcelist
                             /\ ~RaisesForStatus(status)>>
    /\ UNCHANGED <<world, max_items, now, db, xlsx, proc, ignored>>

NextSend == Post

\* every request ends, by an answer or by the timeout of 25 seconds, and
\* every backoff sleep ends
SpecSend == InitSend /\ [][NextSend]_vars /\ WF_vars(NextSend)

(***************************************************************************)
(* Runs in which the fetch of some sources fails.  fetch_feed catches the  *)
(* exception and returns no entries (lines 329-331); fetch_dou skips the   *)
(* query on a bad status or an exception (lines 489-490, 536-538).  `down` *)
(* and `completed` keep, for the run, which sources failed and in which    *)
(* order the workers of the other feeds completed.  The runs take place at *)
(* one instant.                                                            *)
(***************************************************************************)
Sources == {"f1", "f2", "g1", "dou"}

\* no source fails, or one does
Outages == {down \in SUBSET Sources : Cardinality(down) <= 1}

\* the sources of a list that did not fail
RECURSIVE Without(_, _)
Without(order, down) ==
    IF order = <<>> THEN <<>>
    ELSE (IF Head(order) \in down THEN <<>> ELSE <<Head(order)>>)
         \o Without(Tail(order), down)

\* a failure of one source that loses the answers of all of them
ObservedAllLost(w, down) ==
    [s \in Sources |-> IF down # {} THEN <<>> ELSE w[s]]

\* what the fetchers get from the sources when those in `down` fail
Observed(w, down) ==
    [s \in Sources |-> IF s \in down THEN <<>> ELSE w[s]]

\* lines 640-692 for given answers: the items of the feeds listed in
\* `order`, of the alert feeds in `alerts` and of the DOU search, sorted
Gathered(w, order, alerts, dou_enabled, s, t) ==
    LET cutoff == t - Hours(lookback_hours)
        rss_items == process_rss_items(fetch_all_feeds(w, order),
                                       keywords, blocklist, cutoff, "rss")
        ga_items == process_rss_items(fetch_all_feeds(w, alerts),
                                      keywords, blocklist, cutoff, "google_alert")
        dou_items == IF dou_enabled
                     THEN fetch_dou(w.dou, dou_keyword, dou_secao, s, t)
                     ELSE <<>>
    IN  SortItems(rss_items \o ga_items \o dou_items)

CollectDown(r) ==
    /\ proc[r].pc = "idle"
    /\ \A q \in Runs : q < r => proc[q].pc \in {"done", "aborted"}
    /\ \E completed \in FeedOrders, s \in SeedChoices(r), down \in Outages :
         LET merged == Gathered(Observed(world, down), completed, <<"g1">>, TRUE, s, now)
         IN  proc' = [proc EXCEPT ![r] =
                        [@ EXCEPT !.pc = "titles",
                                  !.seed = IF world.dou # <<>> /\ "dou" \notin down
                                           THEN s ELSE 0,
                                  !.all_items = merged,
                                  !.fate = [i \in 1..Len(merged) |-> "pending"],
                                  !.down = down,
                                  !.completed = Without(completed, down)]]
    /\ UNCHANGED <<world, max_items, now, db, xlsx, ignored, fin, fout>>

NextOutage ==
    \/ \E r \in Runs : CollectDown(r)
    \/ \E r \in Runs : Step(r)

InitOutage ==
    /\ Init
    /\ world = [f1 |-> <<eA, eB>>, f2 |-> <<eC>>, g1 |-> <<eG>>, dou |-> <<rD, rZ>>]
    /\ max_items = 1

SpecOutage == InitOutage /\ [][NextOutage]_vars

(***************************************************************************)
(* The two adapters on their own: process_rss_items applied to one feed    *)
(* entry and fetch_dou applied to the result elements of one search page,  *)
(* drawn from bounded sets.  An element matched by                         *)
(* a[href*='/web/dou/'] has a non-empty href.                              *)
(***************************************************************************)
MaxResults == 2

DouTitles == {<<>>, <<" ">>, <<"d">>, <<"d", " ">>}

DouResults ==
    [has_title : BOOLEAN, title : DouTitles, has_link : BOOLEAN, href : {<<"4">>},
     summary : {<<>>}]

DouPages == UNION {[1..n -> DouResults] : n \in 1..MaxResults}

DouInputs == [stage : {"dou"}, results : DouPages]

InitAdapters ==
    /\ InitFilter \/ fin \in DouInputs
    /\ world = [f1 |-> <<>>, f2 |-> <<>>, g1 |-> <<>>, dou |-> <<>>]
    /\ max_items = 1
    /\ now = 0
    /\ db = {}
    /\ xlsx = <<>>
    /\ proc = [r \in Runs |-> Idle]
    /\ ignored = {}
    /\ fout = <<>>

ApplyDou ==
    /\ fin.stage = "dou"
    /\ fout' = fetch_dou(fin.results, dou_keyword, dou_secao, 1, now)
    /\ fin' = [fin EXCEPT !.stage = "out"]
    /\ UNCHANGED <<world, max_items, now, db, xlsx, proc, ignored>>

NextAdapters == ApplyFilter \/ ApplyDou

SpecAdapters == InitAdapters /\ [][NextAdapters]_vars

(***************************************************************************)
(* find_context on its own, the summary, the keyword list, the radius and  *)
(* the maximum length drawn from bounded sets.                             *)
(***************************************************************************)
MaxRadius == 3

ContextSummaries ==
    UNION {[1..n -> {"a", "K", " "}] : n \in 0..3}
    \cup {<<"a", "a", "a", "k", "a", "a", "a">>,
          <<"<", "b", ">", "k">>,
          <<"a", "<", "k", ">">>,
          <<"k", "&", "a">>,
          <<"a", "k", "<", "/", "b", ">">>}

ContextKeywords ==
    {<< <<"k">> >>, << <<"K", "a">> >>, << <<"q">>, <<"k">> >>, << <<"a">>, <<"K">> >>}

ContextMaxLens == {2, 6, 9, 40}

ContextInputs ==
    [stage : {"ctx"},
     title : {<<>>, <<"k">>, <<"K", "a">>},
     summary : ContextSummaries,
     keywords : ContextKeywords,
     context_chars : 0..MaxRadius,
     max_len : ContextMaxLens]

InitContext ==
    /\ world = [f1 |-> <<>>, f2 |-> <<>>, g1 |-> <<>>, dou |-> <<>>]
    /\ max_items = 1
    /\ now = 0
    /\ db = {}
    /\ xlsx = <<>>
    /\ proc = [r \in Runs |-> Idle]
    /\ ignored = {}
    /\ fin \in ContextInputs
    /\ fout = <<>>

ApplyContext ==
    /\ fin.stage = "ctx"
    /\ fout' = << find_context(fin.title, fin.summary, fin.keywords,
                               fin.context_chars, fin.max_len) >>
    /\ fin' = [fin EXCEPT !.stage = "out"]
    /\ UNCHANGED <<world, max_items, now, db, xlsx, proc, ignored>>

NextContext == ApplyContext

SpecContext == InitContext /\ [][NextContext]_vars

(***************************************************************************)
(* Lines 640-692 step by step: the workers of the news feeds end one by    *)
(* one, fetch_all_feeds returns when its pool has shut down, the results   *)
(* are filtered; the same for the alert feed; then the DOU search, then    *)
(* the sort.  `fetched`, `down` and `steps` keep which fetches have ended, *)
(* which of them failed, and what had been fetched when each filter step   *)
(* and the sort began.                                                     *)
(***************************************************************************)
GatherStart ==
    [stage |-> "rss", running |-> {"f1", "f2"}, results |-> <<>>, completed |-> <<>>,
     all_items |-> <<>>, fetched |-> {}, down |-> {}, steps |-> <<>>]

InitGather ==
    /\ world \in Worlds
    /\ max_items = 1
    /\ now = 0
    /\ db = {}
    /\ xlsx = <<>>
    /\ proc = [r \in Runs |-> Idle]
    /\ ignored = {}
    /\ fin = GatherStart
    /\ fout = <<>>

\* a pool that hands its results over while workers are still running
JoinedEarly(running) == TRUE

\* the `with ThreadPoolExecutor` block is left when every worker has ended
Joined(running) == running = {}

\* one worker of the pool ends, with entries or with a failure
WorkerEnds ==
    /\ fin.stage \in {"rss", "ga"}
    /\ \E url \in fin.running, ok \in BOOLEAN :
         LET res == IF ok THEN fetch_feed(world, url)
                    ELSE [entries |-> <<>>, source |-> None]
         IN  fin' = [fin EXCEPT
                       !.running = @ \ {url},
                       !.results = IF res.entries # <<>> THEN Append(@, res) ELSE @,
                       !.completed = IF fin.stage = "rss" /\ ok THEN Append(@, url) ELSE @,
                       !.fetched = @ \cup {url},
                       !.down = IF ok THEN @ ELSE @ \cup {url}]
    /\ UNCHANGED <<world, max_items, now, db, xlsx, proc, ignored, fout>>

\* process_rss_items on the results of the pool, lines 647-649 and 657-660
FilterResults ==
    /\ fin.stage \in {"rss", "ga"}
    /\ Joined(fin.running)
    /\ fin' = [fin EXCEPT
                 !.all_items = @ \o process_rss_items(
                                       fin.results, keywords, blocklist,
                                       now - Hours(lookback_hours),
                                       IF fin.stage = "rss" THEN "rss" ELSE "google_alert"),
                 !.steps = Append(@, [step |-> fin.stage, fetched |-> fin.fetched,
                                      running |-> fin.running]),
                 !.results = <<>>,
                 !.running = IF fin.stage = "rss" THEN {"g1"} ELSE {},
                 !.stage = IF fin.stage = "rss" THEN "ga" ELSE "dou"]
    /\ UNCHANGED <<world, max_items, now, db, xlsx, proc, ignored, fout>>

\* fetch_dou, lines 663-679
SearchDou ==
    /\ fin.stage = "dou"
    /\ \E ok \in BOOLEAN :
         fin' = [fin EXCEPT
                   !.all_items = @ \o (IF ok
                                       THEN fetch_dou(world.dou, dou_keyword, dou_secao, 1, now)
                                       ELSE <<>>),
                   !.fetched = @ \cup {"dou"},
                   !.down = IF ok THEN @ ELSE @ \cup {"dou"},
                   !.stage = "sort"]
    /\ UNCHANGED <<world, max_items, now, db, xlsx, proc, ignored, fout>>

\* all_items.sort(...), line 692; the delivery loop then walks the list
Rank ==
    /\ fin.stage = "sort"
    /\ fin' = [fin EXCEPT
                 !.all_items = SortItems(@),
                 !.steps = Append(@, [step |-> "sort", fetched |-> fin.fetched,
                                      running |-> fin.running]),
                 !.stage = "ranked"]
    /\ fout' = SortItems(fin.all_items)
    /\ UNCHANGED <<world, max_items, now, db, xlsx, proc, ignored>>

NextGather == WorkerEnds \/ FilterResults \/ SearchDou \/ Rank

SpecGather == InitGather /\ [][NextGather]_vars

(***************************************************************************)
(* The plenary agenda, lines 681-687 and 422-461, with camara_pauta        *)
(* enabled.  BRT is UTC-3; the message is keyed by the BRT day.  `unpaced` *)
(* tells that a send of the run has succeeded and no time.sleep has been   *)
(* taken since; `agenda_tried` keeps the BRT day for which the run called  *)
(* send_telegram with the agenda, `agenda_day` the day when that call      *)
(* succeeded.                                                              *)
(***************************************************************************)
BrtOffsetHours == 3

\* camara_config.get("send_hour", 7), on the model's day
send_hour == 0

\* datetime.now(BRT).strftime('%Y%m%d')
BrtDay(t) == (t - Hours(BrtOffsetHours)) \div DayLen

\* datetime.now(BRT).hour
BrtHour(t) == ((t - Hours(BrtOffsetHours)) % DayLen) \div UsPerHour

\* pauta_id = f"camara_pauta_{datetime.now(BRT).strftime('%Y%m%d')}"
AgendaId(t) == [kind |-> "camara_pauta", secao |-> <<>>, text |-> <<>>, n |-> BrtDay(t)]

\* the dict handed to mark_sent, lines 453-460
AgendaItem(t) ==
    [id |-> AgendaId(t), title |-> <<"P">>, link |-> <<"c">>, source |-> "Camara",
     source_type |-> "camara", published_at |-> t]

\* where the run goes on after send_camara_pauta: line 689, or the return
\* of line 625
AfterAgenda(r) == IF proc[r].mode = "news" THEN "titles" ELSE "done"

\* a run of the news mode up to the DOU search, lines 608-679
CollectFirst(r) ==
    /\ proc[r].pc = "idle"
    /\ \A q \in Runs : q < r => proc[q].pc \in {"done", "aborted"}
    /\ \E completed \in FeedOrders, s \in SeedChoices(r) :
         LET merged == Gathered(world, completed, <<"g1">>, TRUE, s, now)
         IN  proc' = [proc EXCEPT ![r] =
                        [@ EXCEPT !.pc = "agenda",
                                  !.seed = IF world.dou # <<>> THEN s ELSE 0,
                                  !.all_items = merged,
                                  !.fate = [i \in 1..Len(merged) |-> "pending"]]]
    /\ UNCHANGED <<world, max_items, now, db, xlsx, ignored, fin, fout>>

\* run(config, pauta_only=True), lines 621-625
StartAgendaOnly(r) ==
    /\ proc[r].pc = "idle"
    /\ \A q \in Runs : q < r => proc[q].pc \in {"done", "aborted"}
    /\ proc' = [proc EXCEPT ![r] = [@ EXCEPT !.pc = "agenda_fetch", !.mode = "pauta"]]
    /\ UNCHANGED <<world, max_items, now, db, xlsx, ignored, fin, fout>>

\* if hora_atual == hora_pauta: send_camara_pauta(db_path), lines 683-687
AgendaGate(r) ==
    /\ proc[r].pc = "agenda"
    /\ proc' = [proc EXCEPT ![r].pc =
                  IF BrtHour(now) = send_hour THEN "agenda_fetch" ELSE AfterAgenda(r)]
    /\ UNCHANGED <<world, max_items, now, db, xlsx, ignored, fin, fout>>

\* a day check that never finds the record
AgendaKnownNever(table, t) == FALSE

\* was_sent(db_path, pauta_id), line 448
AgendaKnown(table, t) == was_sent(table, AgendaId(t))

\* lines 424-450: the events of the day are fetched (none, or a failure,
\* ends the function), the message is built, the day's record is looked up
AgendaFetch(r) ==
    /\ proc[r].pc = "agenda_fetch"
    /\ \E eventos \in BOOLEAN :
         proc' = [proc EXCEPT ![r].pc =
                    IF ~eventos THEN AfterAgenda(r)
                    ELSE IF AgendaKnown(db, now) THEN AfterAgenda(r)
                    ELSE "agenda_send"]
    /\ UNCHANGED <<world, max_items, now, db, xlsx, ignored, fin, fout>>

\* if send_telegram(msg), line 452
AgendaSend(r) ==
    /\ proc[r].pc = "agenda_send"
    /\ \E ok \in BOOLEAN :
         proc' = [proc EXCEPT ![r] =
            IF ok
            THEN [@ EXCEPT !.pc = "agenda_mark", !.unpaced = TRUE,
                           !.agenda_tried = BrtDay(now),
                           !.agenda_day = BrtDay(now)]
            ELSE [@ EXCEPT !.pc = AfterAgenda(r), !.agenda_tried = BrtDay(now)]]
    /\ UNCHANGED <<world, max_items, now, db, xlsx, ignored, fin, fout>>

\* mark_sent(db_path, {...}), lines 453-460
AgendaMark(r) ==
    /\ proc[r].pc = "agenda_mark"
    /\ db' = mark_sent(db, AgendaItem(now), now)
    /\ ignored' = ignored \cup {row \in db : row.id = AgendaId(now)}
    /\ proc' = [proc EXCEPT ![r].pc = AfterAgenda(r)]
    /\ UNCHANGED <<world, max_items, now, xlsx, fin, fout>>

AgendaStep(r) ==
    \/ AgendaGate(r)
    \/ AgendaFetch(r)
    \/ AgendaSend(r)
    \/ AgendaMark(r)

NextAgenda ==
    \/ \E r \in Runs : CollectFirst(r)
    \/ \E r \in Runs : StartAgendaOnly(r)
    \/ \E r \in Runs : AgendaStep(r)
    \/ \E r \in Runs : Step(r)
    \/ Tick

\* the runs with the agenda are followed over the first news feed alone
InitAgenda == Init /\ world.f2 = <<>> /\ world.dou = <<>>

SpecAgenda == InitAgenda /\ [][NextAgenda]_vars

\* ------------------------------------------------------------ properties

\* the positions of run r's list that met fate f
Fated(r, f) == {i \in 1..Len(proc[r].all_items) : proc[r].fate[i] = f}

Item(r, i) == proc[r].all_items[i]

(***************************************************************************)
(* C1.  No duplicate delivery by id.  With the runs one after another, no  *)
(* candidate is handed to the transport while its id has a row in the      *)
(* sent table; a candidate counted as a duplicate is one whose id has a    *)
(* row, and the counter counts exactly these.                              *)
(***************************************************************************)
NoDuplicateDeliveryById ==
    \A r \in Runs :
        /\ ~proc[r].handed_known
        /\ \A i \in Fated(r, "dup") : was_sent(db, Item(r, i).id)
        /\ proc[r].pc # "idle" => proc[r].skipped_duplicate = Cardinality(Fated(r, "dup"))

\* the same id twice in the list of run 1 (delivered, then skipped), and an
\* item of run 2 skipped because an earlier run had sent it
DuplicateSkipped ==
    /\ \E i, j \in 1..Len(proc[1].all_items) :
          /\ i < j
          /\ Item(1, i).id = Item(1, j).id
          /\ proc[1].fate[i] = "delivered"
          /\ proc[1].fate[j] = "dup"
    /\ \E i \in Fated(2, "dup") : was_sent(proc[2].db_at_start, Item(2, i).id)

(***************************************************************************)
(* C2.  Dedup soundness of the sent table, the runs overlapping or not:    *)
(* no two rows share an id, and a row that an insert of the same id found  *)
(* in its way is still in the table, every field as it was.                *)
(***************************************************************************)
SentIdsUnique ==
    /\ \A x, y \in db : x.id = y.id => x = y
    /\ ignored \subseteq db

\* an insert met a row of its id that holds another title
InsertIgnored ==
    \E row \in ignored : \E r \in Runs : \E i \in Fated(r, "delivered") :
        /\ Item(r, i).id = row.id
        /\ Item(r, i).title # row.title
        /\ proc[r].pc = "sleep"
        /\ proc[r].idx = i

\* the items of run r that the transport accepted
Delivered(r) == Fated(r, "delivered")

\* the run is over: the loop ended, or an exception ended run()
Ended(r) == proc[r].pc \in {"done", "aborted"}

(***************************************************************************)
(* C3.  Idempotence of re-runs.  The sources hold the same data for both   *)
(* runs and only run 1 writes to the table between them.  When run 1 has   *)
(* ended with every candidate of its list delivered or already recorded,   *)
(* run 2 delivers nothing.                                                 *)
(***************************************************************************)
RerunDeliversNothing ==
    (/\ proc[1].pc = "done"
     /\ \A i \in 1..Len(proc[1].all_items) : proc[1].fate[i] \in {"delivered", "dup"})
    => Delivered(2) = {}

\* the number of items the loop takes from `items` when no cap stops it and
\* every send succeeds
RECURSIVE Eligible(_, _, _)
Eligible(items, table, titles) ==
    IF items = <<>> THEN 0
    ELSE IF was_sent(table, Head(items).id) THEN Eligible(Tail(items), table, titles)
    ELSE IF is_duplicate_by_similarity(Head(items).title, titles, similarity_threshold)
         THEN Eligible(Tail(items), table, titles)
    ELSE 1 + Eligible(Tail(items), mark_sent(table, Head(items), 0),
                      Append(titles, Head(items).title))

EligibleAtStart(r) ==
    Eligible(proc[r].all_items, proc[r].db_at_start,
             get_sent_titles_today(proc[r].db_at_start, proc[r].titles_at))

Handed(r) == Fated(r, "delivered") \cup Fated(r, "failed")

(***************************************************************************)
(* C5.  Fuzzy-title dedup.  No item is handed to the transport while its   *)
(* title is similar, above the threshold, to a title sent earlier the same *)
(* calendar day or to the title of an item delivered earlier in the run.   *)
(***************************************************************************)
SimilarNeverSent ==
    \A r \in Runs : \A i \in Handed(r) :
        /\ \A row \in TodayRowsWholeDay(proc[r].db_at_start, proc[r].titles_at) :
              ~is_similar(Item(r, i).title, row.title, similarity_threshold)
        /\ \A j \in Delivered(r) :
              j < i => ~is_similar(Item(r, i).title, Item(r, j).title, similarity_threshold)

(***************************************************************************)
(* C6.  Blocklist precedence: no delivered item, whatever its source kind, *)
(* has a blocklist term in its title and body.                             *)
(***************************************************************************)
BlocklistedNeverDelivered ==
    \A r \in Runs : \A i \in Delivered(r) : ~HitsBlocklist(blocklist, Item(r, i).blob)

\* the filter has run on an entry with a title and a link
FilterRan ==
    /\ fin.stage = "out"
    /\ normalize(fin.entry.title) # <<>>
    /\ normalize(fin.entry.link) # <<>>

FilterBlob == Blob(normalize(fin.entry.title), normalize(fin.entry.summary))

\* some keyword of the list occurs in the text, case-insensitively
KeywordOccurs ==
    \E i \in 1..Len(fin.keywords) : Contains(FilterBlob, Lower(fin.keywords[i]))

\* published_at of the entry: its published time, else its updated time
FilterPublishedAt ==
    IF fin.entry.published # None THEN fin.entry.published ELSE fin.entry.updated

(***************************************************************************)
(* C7.  Must-have filter: an entry that no other check rejects (no         *)
(* blocklist term, not older than the cutoff) is dropped exactly when the  *)
(* must-have list is non-empty and none of its keywords occurs in the      *)
(* text; with an empty list the check drops nothing.                       *)
(***************************************************************************)
MustHaveOnlyWhenNonEmpty ==
    (/\ FilterRan
     /\ ~HitsBlocklist(fin.blocklist, FilterBlob)
     /\ ~(FilterPublishedAt # None /\ FilterPublishedAt < fin.cutoff))
    => (fout = <<>> <=> (fin.keywords # <<>> /\ ~KeywordOccurs))

(***************************************************************************)
(* C8.  Recency cutoff: an entry that passes the keyword and blocklist     *)
(* checks is dropped exactly when its published_at is known and strictly   *)
(* older than the cutoff; at the cutoff or newer it is kept, and with no   *)
(* published_at it is kept; the kept item carries that published_at.       *)
(***************************************************************************)
RecencyCutoff ==
    (/\ FilterRan
     /\ KeywordOccurs
     /\ ~HitsBlocklist(fin.blocklist, FilterBlob))
    => /\ fout = <<>> <=> (FilterPublishedAt # None /\ FilterPublishedAt < fin.cutoff)
       /\ fout # <<>> => fout[1].published_at = FilterPublishedAt

\* an entry published exactly at the cutoff was kept
KeptAtCutoff ==
    /\ FilterRan
    /\ FilterPublishedAt = fin.cutoff
    /\ fout # <<>>

FreshSimilarPair(r, i, j) ==
    /\ i # j
    /\ ~was_sent(proc[r].db_at_start, Item(r, i).id)
    /\ ~was_sent(proc[r].db_at_start, Item(r, j).id)
    /\ is_similar(Item(r, j).title, Item(r, i).title, similarity_threshold)

FeedIndex(source) == CHOOSE n \in 1..Len(feeds) : feeds[n] = source

\* the sort key of line 692
SortKey(item) == <<item.relevance, DateKey(item.published_at)>>

(***************************************************************************)
(* C11.  Determinism after the merge: the ranked list does not depend on   *)
(* the order in which the fetch workers complete; two news-feed candidates *)
(* with identical sort keys stand in the order in which their feeds are    *)
(* listed.                                                                 *)
(***************************************************************************)
EqualKeysKeepFeedOrder ==
    \A r \in Runs : \A i, j \in 1..Len(proc[r].all_items) :
        (/\ i < j
         /\ Item(r, i).source_type = "rss"
         /\ Item(r, j).source_type = "rss"
         /\ SortKey(Item(r, i)) = SortKey(Item(r, j)))
        => FeedIndex(Item(r, i).source) <= FeedIndex(Item(r, j).source)

\* the step of run r in which the send of the current item fails
SendFails(r) ==
    /\ proc[r].pc = "send"
    /\ proc'[r].fate[proc[r].idx] = "failed"

\* a run is cut short only by a failing history-log write, which follows a
\* delivered item; a run that ends below the cap has examined every candidate
OnlyTheLogWriteAborts ==
    \A r \in Runs :
        /\ proc[r].pc = "aborted" => proc[r].fate[proc[r].idx] = "delivered"
        /\ (proc[r].pc = "done" /\ proc[r].sent < max_items)
           => Fated(r, "pending") = {}

(***************************************************************************)
(* C12.  A failed send never aborts the run: the step writes no sent       *)
(* record and no history row, leaves the comparison set and the count of   *)
(* sent items as they were, and moves the loop to the next candidate; a    *)
(* run that ends below the cap has attempted every later candidate.        *)
(***************************************************************************)
FailedSendNeverAborts ==
    /\ []OnlyTheLogWriteAborts
    /\ [][\A r \in Runs :
            SendFails(r) =>
                /\ db' = db
                /\ xlsx' = xlsx
                /\ proc'[r].sent_titles = proc[r].sent_titles
                /\ proc'[r].sent = proc[r].sent
                /\ proc'[r].pc = "loop"
                /\ proc'[r].idx = proc[r].idx + 1]_vars

\* a run that went on after a failed send and delivered a later candidate
DeliveredAfterFailedSend ==
    \E r \in Runs : \E i, j \in 1..Len(proc[r].all_items) :
        /\ i < j
        /\ proc[r].pc = "done"
        /\ proc[r].fate[i] = "failed"
        /\ proc[r].fate[j] = "delivered"
        /\ ~was_sent(db, Item(r, i).id)

\* the answer to the n-th request of the call
Answer(n) == fin.responses[n]

Transient(status) == status \in {429, 500, 502, 503, 504}

\* what holds of the call at every moment and of its result
RetryBounded ==
    fin.stage \in {"post", "returned"} =>
        /\ fin.attempts <= 1 + 3
        /\ \A n \in 1..fin.attempts :
               n < fin.attempts => (Transient(Answer(n)) \/ Answer(n) = 0)
        /\ fin.stage = "returned" =>
               /\ fout \in {<<TRUE>>, <<FALSE>>}
               /\ fout = <<TRUE>> <=> Answer(fin.attempts) = 200
               /\ Answer(fin.attempts) = 400 => fout = <<FALSE>>
               /\ Transient(Answer(fin.attempts))
                  => (fin.attempts = 1 + 3 /\ fout = <<FALSE>>)

(***************************************************************************)
(* C13.  Bounded retry of a send: a request answered by 429, 500, 502, 503 *)
(* or 504 is retried at most 3 times; after the last retry the call        *)
(* returns False, as it does, without any retry, for an answer of another  *)
(* error status; and the call always returns.                              *)
(***************************************************************************)
SendRetryBounded ==
    /\ []RetryBounded
    /\ <>(fin.stage = "returned")

\* three retries were spent on transient answers and the call returned False
RetriesExhausted ==
    /\ fin.stage = "returned"
    /\ fin.attempts = 4
    /\ \A n \in 1..4 : Transient(Answer(n))
    /\ fout = <<FALSE>>

(***************************************************************************)
(* C14.  Delivered implies recorded: when a run has ended, by reaching the *)
(* end of its loop or by a failing history-log write, every item it        *)
(* delivered has a record in the sent store.                               *)
(***************************************************************************)
DeliveredIsRecorded ==
    \A r \in Runs :
        Ended(r) => \A i \in Delivered(r) : was_sent(db, Item(r, i).id)

\* a feed item delivered by a run and delivered again by the next run
DeliveredAgainAfterAbort ==
    \E i \in Delivered(1), j \in Delivered(2) :
        /\ proc[1].pc = "aborted"
        /\ Item(1, i).source_type = "rss"
        /\ Item(1, i).id = Item(2, j).id

(***************************************************************************)
(* C15.  Source failure isolation: a run in which the fetch of some        *)
(* sources failed is not aborted, and its ranked list is the list of a run *)
(* configured without those sources: the failed sources contribute no      *)
(* item and the items of the others are all there, filtered and ranked.    *)
(***************************************************************************)
FailedSourceIsAbsentSource ==
    \A r \in Runs :
        Active(r) =>
            proc[r].all_items =
                Gathered(world, proc[r].completed,
                         Without(<<"g1">>, proc[r].down), "dou" \notin proc[r].down,
                         proc[r].seed, now)

\* a run whose first feed failed delivers an item of the second feed
OtherSourceDelivered ==
    \E r \in Runs : \E i \in Delivered(r) :
        /\ proc[r].down = {"f1"}
        /\ proc[r].pc = "done"
        /\ Item(r, i).source = "f2"

\* the counts of the final log line, lines 747-751
Summary(r) ==
    [sent |-> proc[r].sent,
     skipped_duplicate |-> proc[r].skipped_duplicate,
     skipped_similar |-> proc[r].skipped_similar]

\* the candidates the delivery loop has dealt with
Examined(r) == {i \in 1..Len(proc[r].all_items) : proc[r].fate[i] # "pending"}

(***************************************************************************)
(* C16.  A run always ends with a summary: a run that has ended has        *)
(* reached the final log line, and the counts that line reports add up to  *)
(* the number of candidates the delivery loop examined.                    *)
(***************************************************************************)
RunEndsWithFullSummary ==
    \A r \in Runs :
        Ended(r) =>
            /\ proc[r].pc = "done"
            /\ Summary(r).sent + Summary(r).skipped_duplicate
                   + Summary(r).skipped_similar
               = Cardinality(Examined(r))

\* a run that reached the final log line with a failed send among its
\* candidates
SummaryAfterFailedSend ==
    \E r \in Runs :
        /\ proc[r].pc = "done"
        /\ Fated(r, "failed") # {}
        /\ Summary(r).sent + Summary(r).skipped_duplicate
               + Summary(r).skipped_similar
           < Cardinality(Examined(r))

(***************************************************************************)
(* C17.  Item validity: every item an adapter hands to the pipeline, from  *)
(* a feed entry or from a DOU search result, has a non-empty title and a   *)
(* non-empty link.                                                         *)
(***************************************************************************)
AdaptedItemsValid ==
    fin.stage = "out" =>
        \A i \in 1..Len(fout) : fout[i].title # <<>> /\ fout[i].link # <<>>

\* a feed entry without a link was dropped
EntryWithoutLinkDropped ==
    /\ fin.stage = "out"
    /\ "entry" \in DOMAIN fin
    /\ normalize(fin.entry.title) # <<>>
    /\ AnyIn(fin.keywords, Blob(normalize(fin.entry.title), normalize(fin.entry.summary)))
    /\ fin.entry.link = <<>>
    /\ fout = <<>>

(***************************************************************************)
(* C18.  Stable item id: the same raw item, fetched by two runs in two     *)
(* processes, gets the same id in both.                                    *)
(***************************************************************************)
SameRawItemSameId ==
    \A r1, r2 \in Runs :
        \A i \in 1..Len(proc[r1].all_items), j \in 1..Len(proc[r2].all_items) :
            (/\ Item(r1, i).source_type = Item(r2, j).source_type
             /\ Item(r1, i).source = Item(r2, j).source
             /\ Item(r1, i).title = Item(r2, j).title
             /\ Item(r1, i).link = Item(r2, j).link)
            => Item(r1, i).id = Item(r2, j).id

\* a feed entry that brings its own id keeps it, and two runs agree on it
AdapterIdKept ==
    \E i \in 1..Len(proc[1].all_items), j \in 1..Len(proc[2].all_items) :
        /\ Item(1, i).id = StrId(eB.id)
        /\ Item(2, j).id = StrId(eB.id)
        /\ Item(1, i).link = Item(2, j).link

\* find_context has run and found a keyword in the body
ContextFound ==
    /\ fin.stage = "out"
    /\ "context_chars" \in DOMAIN fin
    /\ FirstHit(normalize(fin.summary), fin.keywords, 1) # 0

Snippet == fout[1].ctx

\* the occurrence of the keyword in the body, as written there, between the
\* emphasis tags
EmphasisedOccurrence ==
    LET raw == normalize(fin.summary)
        k == Lower(fout[1].kw)
        idx == Find(Lower(raw), k)
    IN  OpenB \o Slice(raw, idx, idx + Len(k)) \o CloseB

HasMarkup(s) == \E i \in 1..Len(s) : s[i] \in {"<", ">", "&"}

(***************************************************************************)
(* C19.  Context window: when the keyword occurs in the body, the snippet  *)
(* contains the occurrence wrapped in the emphasis marker, holds at most   *)
(* r + len(keyword) + r characters of the body, and ends with the          *)
(* truncation marker only when it was cut to the maximum length.           *)
(***************************************************************************)
ContextShowsKeyword ==
    ContextFound =>
        /\ Contains(Snippet, EmphasisedOccurrence)
        /\ ~HasMarkup(fin.summary) =>
               Len(Snippet) <= 2 * fin.context_chars + Len(fout[1].kw)
                               + Len(OpenB) + Len(CloseB) + 1
        /\ Snippet[Len(Snippet)] = Ellipsis[1] => Len(Snippet) = fin.max_len + 1

\* a snippet cut to the maximum length that still shows the keyword
CutSnippetShowsKeyword ==
    /\ ContextFound
    /\ Snippet[Len(Snippet)] = Ellipsis[1]
    /\ Contains(Snippet, EmphasisedOccurrence)

\* the snippet without the emphasis pair around the occurrence
OutsideEmphasis ==
    LET p == Find(Snippet, EmphasisedOccurrence)
    IN  IF p = -1 THEN Snippet
        ELSE Slice(Snippet, 0, p)
             \o Slice(Snippet, p + Len(EmphasisedOccurrence), Len(Snippet))

\* position i of s starts one of the entities html.escape writes
EntityAt(s, i) ==
    \E c \in {"&", "<", ">"} : MatchAt(s, EscapeChar(c), i - 1)

(***************************************************************************)
(* C20.  Snippet escaping: apart from the one emphasis pair around the     *)
(* keyword occurrence, the snippet holds no unescaped markup character: no *)
(* "<", no ">", and no "&" that does not start an entity; also when the    *)
(* snippet was cut to the maximum length.                                  *)
(***************************************************************************)
SnippetMarkupEscaped ==
    ContextFound =>
        \A i \in 1..Len(OutsideEmphasis) :
            /\ OutsideEmphasis[i] \notin {"<", ">"}
            /\ OutsideEmphasis[i] = "&" => EntityAt(OutsideEmphasis, i)

\* markup characters of the body that came out escaped, next to the emphasis
BodyMarkupEscaped ==
    /\ ContextFound
    /\ fin.summary = <<"a", "<", "k", ">">>
    /\ Snippet = <<"a">> \o EscapeChar("<") \o EmphasisedOccurrence \o EscapeChar(">")

\* the steps of the gathering that have begun
GatherSteps == {fin.steps[n] : n \in 1..Len(fin.steps)}

(***************************************************************************)
(* C21 as stated.  Merge barrier: no filter step and no sort of a run      *)
(* begins before every source fetch of the run has completed or failed.    *)
(***************************************************************************)
NoStepBeforeAllFetches ==
    "steps" \in DOMAIN fin =>
        \A st \in GatherSteps : st.fetched = Sources

(***************************************************************************)
(* C21 amended.  The source kinds are fetched and filtered one after the   *)
(* other: the filter of the news feeds begins when every news-feed worker  *)
(* has completed or failed, the filter of the alert feed when its worker   *)
(* has, and the sort when every source fetch has.  No worker is running    *)
(* when a filter step or the sort begins, and the ranked list is the       *)
(* sorted merge of the items of all the sources that did not fail.         *)
(***************************************************************************)
StepsAfterTheirFetches ==
    "steps" \in DOMAIN fin =>
        /\ \A st \in GatherSteps :
               /\ st.running = {}
               /\ st.step = "rss" => {"f1", "f2"} \subseteq st.fetched
               /\ st.step = "ga" => {"f1", "f2", "g1"} \subseteq st.fetched
               /\ st.step = "sort" => st.fetched = Sources
        /\ fin.stage = "ranked" =>
               /\ fin.running = {}
               /\ fout = fin.all_items
               /\ fout = Gathered(Observed(world, fin.down), fin.completed,
                                  <<"g1">>, TRUE, 1, now)

\* the news feeds were filtered while the DOU search had not begun, and the
\* ranked list holds items of a feed and of the DOU
FilteredBeforeDouFetched ==
    /\ "steps" \in DOMAIN fin
    /\ fin.stage = "ranked"
    /\ \E st \in GatherSteps : st.step = "rss" /\ "dou" \notin st.fetched
    /\ \E i, j \in 1..Len(fout) :
           fout[i].source_type = "rss" /\ fout[j].source_type = "dou"

\* the positions, in the declared order, of the keywords that occur
\* case-insensitively in a text
Occurring(text, kws) ==
    {n \in 1..Len(kws) : Contains(Lower(text), Lower(kws[n]))}

Least(S) == CHOOSE n \in S : \A m \in S : n <= m

(***************************************************************************)
(* C22.  First match wins: find_context returns the first keyword, in the  *)
(* declared order, that occurs case-insensitively in the body, with a      *)
(* window; only when none occurs in the body, the first one in declared    *)
(* order that occurs in the title, with the sentinel snippet; and two      *)
(* empty results when none occurs in either.                               *)
(***************************************************************************)
FirstMatchWins ==
    (fin.stage = "out" /\ "context_chars" \in DOMAIN fin) =>
        LET InBody == Occurring(normalize(fin.summary), fin.keywords)
            InTitle == Occurring(fin.title, fin.keywords)
        IN  IF InBody # {}
            THEN /\ fout[1].kw = fin.keywords[Least(InBody)]
                 /\ fout[1].ctx \notin {VerTitulo, <<>>}
            ELSE IF InTitle # {}
            THEN /\ fout[1].kw = fin.keywords[Least(InTitle)]
                 /\ fout[1].ctx = VerTitulo
            ELSE /\ fout[1].kw = <<>>
                 /\ fout[1].ctx = <<>>

\* two keywords occur in the body and in the title, the second declared one
\* earlier in the body than the first, and the first declared one is returned
\* with a window
FirstDeclaredReturned ==
    /\ fin.stage = "out"
    /\ "context_chars" \in DOMAIN fin
    /\ Len(fin.keywords) = 2
    /\ Occurring(normalize(fin.summary), fin.keywords) = {1, 2}
    /\ Occurring(fin.title, fin.keywords) = {1, 2}
    /\ Find(Lower(normalize(fin.summary)), Lower(fin.keywords[2]))
         < Find(Lower(normalize(fin.summary)), Lower(fin.keywords[1]))
    /\ fout[1].kw = fin.keywords[1]
    /\ fout[1].ctx # VerTitulo

\* the run is about to call send_telegram
AboutToSend(r) == proc[r].pc \in {"send", "agenda_send"}

(***************************************************************************)
(* C23.  Pacing order: when a send attempt of a run begins, every          *)
(* successful send of the run before it has been followed by its sent      *)
(* record and by the pacing delay.                                         *)
(***************************************************************************)
SendsArePaced ==
    \A r \in Runs :
        AboutToSend(r) =>
            /\ ~proc[r].unpaced
            /\ \A i \in 1..Len(proc[r].fate) :
                   proc[r].fate[i] = "delivered" => was_sent(db, proc[r].all_items[i].id)
            /\ proc[r].agenda_day # None => was_sent(db, AgendaId(now))

\* the agenda message went out, its record is written, and the first item
\* of the run is about to be sent with no delay taken
ItemSendRightAfterAgenda ==
    \E r \in Runs :
        /\ proc[r].pc = "send"
        /\ proc[r].agenda_day # None
        /\ proc[r].sent = 0
        /\ was_sent(db, AgendaId(now))
        /\ proc[r].unpaced

\* the day-keyed records of the agenda in the sent table
AgendaRows == {row \in db : row.source_type = "camara"}

(***************************************************************************)
(* C25.  Daily agenda message at most once per day: no two runs of a       *)
(* sequence send the agenda successfully for the same BRT day; a day's     *)
(* record exists only if a run sent the agenda successfully for that day,  *)
(* and exists once the run that did has written it, so a failed send       *)
(* leaves no record and does not keep a later run of the day from sending. *)
(***************************************************************************)
AgendaOncePerDay ==
    /\ \A r, q \in Runs :
           (r # q /\ proc[r].agenda_day # None) => proc[q].agenda_day # proc[r].agenda_day
    /\ \A row \in AgendaRows : \E r \in Runs : proc[r].agenda_day = row.id.n
    /\ \A r \in Runs :
           (proc[r].agenda_day # None /\ proc[r].pc # "agenda_mark")
               => \E row \in AgendaRows : row.id.n = proc[r].agenda_day
    /\ \A r \in Runs :
           (proc[r].agenda_tried # None /\ \A q \in Runs : proc[q].agenda_day = None)
               => AgendaRows = {}

\* the first run's send of the agenda failed and wrote nothing; the second
\* run, on the same BRT day, found no record, sent it and recorded it
AgendaSentAfterFailedSend ==
    /\ proc[1].agenda_tried # None
    /\ proc[1].agenda_day = None
    /\ proc[2].agenda_day = proc[1].agenda_tried
    /\ proc[2].pc = "done"
    /\ \E row \in AgendaRows : row.id.n = proc[2].agenda_day

\* the loop of run r is at a candidate with the cap reached
AtCap(r) ==
    /\ proc[r].pc = "loop"
    /\ proc[r].idx <= Len(proc[r].all_items)
    /\ proc[r].sent >= max_items

\* the loop of run r ended at the cap with candidates left
StoppedAtCap(r) ==
    /\ proc[r].pc = "done"
    /\ proc[r].idx <= Len(proc[r].all_items)
    /\ proc[r].sent >= max_items

\* the candidates the cap cut off
LeftAtCap(r) == proc[r].idx .. Len(proc[r].all_items)

\* the candidates left at the cap were not examined and are in no counter
CapLeavesRestAlone ==
    \A r \in Runs :
        (AtCap(r) \/ StoppedAtCap(r)) =>
            /\ \A i \in LeftAtCap(r) : proc[r].fate[i] = "pending"
            /\ proc[r].skipped_duplicate = Cardinality(Fated(r, "dup"))
            /\ proc[r].skipped_similar = Cardinality(Fated(r, "similar"))
            /\ proc[r].sent = Cardinality(Fated(r, "delivered"))

\* the step taken at the cap ends the loop and writes nothing, and the run
\* does nothing after it
CapStepWritesNothing ==
    \A r \in Runs :
        /\ AtCap(r) => /\ proc'[r] = [proc[r] EXCEPT !.pc = "done"]
                       /\ db' = db
                       /\ xlsx' = xlsx
        /\ StoppedAtCap(r) => proc'[r] = proc[r]

\* a candidate of run 2 that run 1 left at the cap
CarriedOver(j) ==
    /\ StoppedAtCap(1)
    /\ j \in 1..Len(proc[2].all_items)
    /\ \E i \in LeftAtCap(1) : Item(1, i).id = Item(2, j).id

(***************************************************************************)
(* C24 as stated.  Stop at the cap: the candidates left when the cap is    *)
(* reached are not examined, not counted, and nothing is written for them; *)
(* a later run that fetches such a candidate again delivers it unless the  *)
(* id check or the similarity check rejects it.                            *)
(***************************************************************************)
CutCandidateDeliveredNextRun ==
    /\ []CapLeavesRestAlone
    /\ [][CapStepWritesNothing]_vars
    /\ [](proc[2].pc = "done" =>
            \A j \in 1..Len(proc[2].all_items) :
                CarriedOver(j) => proc[2].fate[j] \in {"delivered", "dup", "similar"})

(***************************************************************************)
(* C24 amended.  The candidates left when the cap is reached are not       *)
(* examined, not counted, and nothing is written for them; a later run     *)
(* that fetches such a candidate again treats it like any other: it is     *)
(* rejected by the id or the similarity check, or handed to the transport  *)
(* (delivered, or not when the send fails), or left again at that run's    *)
(* cap.                                                                    *)
(***************************************************************************)
CutCandidateExaminedNextRun ==
    /\ []CapLeavesRestAlone
    /\ [][CapStepWritesNothing]_vars
    /\ [](proc[2].pc = "done" =>
            \A j \in 1..Len(proc[2].all_items) :
                CarriedOver(j) =>
                    /\ proc[2].fate[j] \in {"delivered", "dup", "similar", "failed", "pending"}
                    /\ proc[2].fate[j] = "pending" => (StoppedAtCap(2) /\ j \in LeftAtCap(2))
                    /\ proc[2].fate[j] = "dup" => was_sent(db, Item(2, j).id)
                    /\ proc[2].fate[j] = "delivered" => was_sent(db, Item(2, j).id))

\* run 1 stopped at the cap, and run 2 delivered a candidate that run 1 had
\* left, whose id run 1 had not delivered
CutCandidateDelivered ==
    /\ proc[2].pc = "done"
    /\ \E j \in Fated(2, "delivered") :
           /\ CarriedOver(j)
           /\ \A i \in Fated(1, "delivered") : Item(1, i).id # Item(2, j).id

=============================================================================
